---------------------------- MODULE Spec2Model ----------------------------
(***************************************************************************)
(* Model of main.py: run_all starts one process_node thread per node of    *)
(* CONFIG; each thread registers its node, starts a session and then polls *)
(* (health check, ping, status check, sleep) until max_ping_errors         *)
(* consecutive poll cycles have raised.                                    *)
(***************************************************************************)
EXTENDS Integers, Sequences, FiniteSets, TLC

VARIABLES
    USE_PROXY,   \* the module-level flag (main.py:23, written at main.py:161)
    CONFIG,      \* the imported configuration: a sequence of user records
    service,     \* what the remote service may answer, per endpoint
    main,        \* run_all's frame: pc, loop positions, user_token
    threads,     \* the threads list of run_all; each entry holds the
                 \* arguments and the locals of one process_node call
    calls,       \* per thread: how often each API function / sleep was called
    proxyArgs,   \* per thread: the proxy arguments passed to API functions
    resp,        \* per thread: the outcome of its latest HTTP request
    log          \* per thread: the lines it printed in its latest step that
                 \* printed any (the tail of its output)

vars == <<USE_PROXY, CONFIG, service, main, threads, calls, proxyArgs, resp, log>>

-----------------------------------------------------------------------------
(* Program constants and bounds *)

max_ping_errors == 3

\* Poll cycles a thread may begin (the loop of the program is unbounded).
MaxCycles == 4

\* Python's None, and the value of a local that is not bound yet.
None == "<None>"
Unbound == "<unbound>"

\* dict.get(key): the value, or None when the key is absent.
Get(d, k) == IF k \in DOMAIN d THEN d[k] ELSE None

\* dict.get(key, default)
GetOr(d, k, default) == IF k \in DOMAIN d THEN d[k] ELSE default

\* Python truthiness of a proxy value (None and "" are falsy).
Truthy(v) == v # None /\ v # ""

-----------------------------------------------------------------------------
(* Inputs: configurations and service behaviours *)

NodeA == [nodeId |-> "n1", hardwareId |-> "h1", proxy |-> "http://p1"]
NodeB == [nodeId |-> "n2", hardwareId |-> "h2"]
NodeC == [nodeId |-> "n3", hardwareId |-> "h3", proxy |-> ""]

Configs ==
    { <<[usertoken |-> "t1", nodes |-> <<NodeA>>]>>,
      <<[usertoken |-> "t1", nodes |-> <<NodeC>>]>>,
      <<[usertoken |-> "t1", nodes |-> <<NodeA, NodeB>>]>>,
      <<[usertoken |-> "t1", nodes |-> <<NodeA, NodeC>>]>>,
      <<[usertoken |-> "t1", nodes |-> <<NodeB>>], [usertoken |-> "t0"],
        [usertoken |-> "t2", nodes |-> <<NodeA>>]>> }

\* Outcomes of one HTTP request, by endpoint:
\*   transport: requests.post / requests.get raises
\*   nonjson:   a response whose body response.json() cannot parse
\*   json:      a response with a JSON body
\*   ok, other: (health) JSON body with status "ok" / any other JSON body
\*   ok, notok: (status) response.ok true / false
PostOutcomes == {"transport", "nonjson", "json"}
HealthOutcomes == {"transport", "nonjson", "ok", "other"}
StatusOutcomes == {"transport", "ok", "notok"}

\* Behaviours of the node API for one node.
Healthy == [register |-> {"json"}, start_session |-> {"json"},
            ping |-> {"json"}, status |-> {"ok"}]
PingDown == [register |-> {"json"}, start_session |-> {"json"},
             ping |-> {"transport", "nonjson"}, status |-> {"ok"}]
RegisterGarbled == [register |-> {"nonjson"}, start_session |-> {"json"},
                    ping |-> {"json"}, status |-> {"ok"}]
Arbitrary == [register |-> PostOutcomes, start_session |-> PostOutcomes,
              ping |-> PostOutcomes, status |-> StatusOutcomes]

NodeBehaviours == {Healthy, PingDown, RegisterGarbled, Arbitrary}

NodesOf(user) == GetOr(user, "nodes", <<>>)

ConfigNodeIds(cfg) ==
    UNION { { Get(NodesOf(cfg[u])[n], "nodeId") : n \in DOMAIN NodesOf(cfg[u]) } :
            u \in DOMAIN cfg }

\* A single node is run against every behaviour of the service; a fleet of
\* several nodes against the scripted ones, with a healthy health endpoint.
Services(cfg) ==
    IF Cardinality(ConfigNodeIds(cfg)) = 1
       THEN [health : {{"ok"}, HealthOutcomes},
             nodes : [ConfigNodeIds(cfg) -> NodeBehaviours]]
       ELSE [health : {{"ok"}},
             nodes : [ConfigNodeIds(cfg) -> NodeBehaviours \ {Arbitrary}]]

-----------------------------------------------------------------------------
(* Log lines *)

Line(kind, node, n) == [kind |-> kind, node |-> node, n |-> n]


-----------------------------------------------------------------------------
(* The API functions: what a call prints and whether it raises, given the  *)
(* outcome of its HTTP request.                                            *)

Returned(lines) == [raised |-> FALSE, printed |-> lines]
Raised(lines) == [raised |-> TRUE, printed |-> lines]

\* Mutant of register_node: the except clause prints but does not re-raise.
register_node_swallows(node_id, o) ==
    CASE o = "transport" -> Raised({})
      [] o = "json" -> Returned({Line("registration_response", node_id, 0)})
      [] o = "nonjson" -> Returned({Line("registration_parse_failed", node_id, 0)})

register_node(node_id, o) ==
    CASE o = "transport" -> Raised({})
      [] o = "json" -> Returned({Line("registration_response", node_id, 0)})
      [] o = "nonjson" -> Raised({Line("registration_parse_failed", node_id, 0)})

start_session(node_id, o) ==
    CASE o = "transport" -> Raised({})
      [] o = "json" -> Returned({Line("start_session_response", node_id, 0)})
      [] o = "nonjson" -> Raised({Line("start_session_parse_failed", node_id, 0)})

\* Mutant of ping_node: the except clause prints but does not re-raise.
ping_node_swallows(node_id, o) ==
    CASE o = "transport" -> Raised({})
      [] o = "json" -> Returned({Line("ping_response", node_id, 0)})
      [] o = "nonjson" -> Returned({Line("ping_parse_failed", node_id, 0)})

ping_node(node_id, o) ==
    CASE o = "transport" -> Raised({})
      [] o = "json" -> Returned({Line("ping_response", node_id, 0)})
      [] o = "nonjson" -> Raised({Line("ping_parse_failed", node_id, 0)})

\* Mutant of check_node_status: a non-success status prints nothing.
check_node_status_silent(node_id, o) ==
    CASE o = "transport" -> Raised({})
      [] o = "ok" -> Returned({Line("status_ok", node_id, 0)})
      [] o = "notok" -> Returned({})

\* Mutant of check_node_status: a non-success status raises, as
\* response.raise_for_status() would.
check_node_status_raises_for_status(node_id, o) ==
    CASE o = "transport" -> Raised({})
      [] o = "ok" -> Returned({Line("status_ok", node_id, 0)})
      [] o = "notok" -> Raised({Line("status_check_failed", node_id, 0)})

check_node_status(node_id, o) ==
    CASE o = "transport" -> Raised({})
      [] o = "ok" -> Returned({Line("status_ok", node_id, 0)})
      [] o = "notok" -> Returned({Line("status_check_failed", node_id, 0)})

\* Mutant of check_service_health: response.json() is outside the try, so
\* a body that cannot be parsed raises.
check_service_health_parse_raises(o) ==
    CASE o = "transport" -> Raised({})
      [] o = "ok" -> Returned({Line("health_ok", None, 0)})
      [] o = "other" -> Returned({Line("health_check_failed", None, 0)})
      [] o = "nonjson" -> Raised({})

\* check_service_health takes no node id: its lines name no node.
check_service_health(o) ==
    CASE o = "transport" -> Raised({})
      [] o = "ok" -> Returned({Line("health_ok", None, 0)})
      [] o = "other" -> Returned({Line("health_check_failed", None, 0)})
      [] o = "nonjson" -> Returned({Line("health_check_error", None, 0)})

-----------------------------------------------------------------------------
(* run_all *)

NoCalls == [register |-> 0, start_session |-> 0, health |-> 0, ping |-> 0,
            status |-> 0, sleep |-> 0]

NoResponse == [ep |-> "none", outcome |-> "none", raised |-> FALSE]

\* threading.Thread(target=process_node, args=(node, user_token, hardware_info))
NewThread(node, user_token, hardware_info) ==
    [node |-> node, user_token |-> user_token, hardware_info |-> hardware_info,
     pc |-> "enter", node_id |-> Unbound, hardware_id |-> Unbound,
     proxy |-> Unbound, ping_errors |-> Unbound]

\* Mutant of HardwareInfo: built from the node identifier.
HardwareInfo_from_node_id(node) == [hardwareId |-> Get(node, "nodeId")]

\* hardware_info = {"hardwareId": node.get("hardwareId")}
HardwareInfo(node) == [hardwareId |-> Get(node, "hardwareId")]

Terminated == {"aborted", "restarted"}

Init ==
    /\ USE_PROXY = FALSE
    /\ CONFIG \in Configs
    /\ service \in Services(CONFIG)
    /\ main = [pc |-> "prompt", ui |-> 1, ni |-> 1, user_token |-> Unbound, j |-> 1,
               printed |-> {}]
    /\ threads = <<>>
    /\ calls = <<>>
    /\ proxyArgs = <<>>
    /\ resp = <<>>
    /\ log = <<>>

\* USE_PROXY = prompt_proxy_usage(); print("Using proxy: ...")
run_all_prompt ==
    /\ main.pc = "prompt"
    /\ \E answer \in BOOLEAN : USE_PROXY' = answer
    /\ main' = [main EXCEPT !.pc = "for_user", !.ui = 1,
                            !.printed = {Line("using_proxy", None, 0)}]
    /\ UNCHANGED <<CONFIG, service, threads, calls, proxyArgs, resp, log>>

\* Mutant of run_all_for_user: the prompt that sets USE_PROXY comes after
\* the loop that starts the threads.
run_all_for_user_prompts_late ==
    /\ main.pc = "for_user"
    /\ IF main.ui > Len(CONFIG)
          THEN /\ main' = [main EXCEPT !.pc = "join", !.j = 1]
               /\ \E answer \in BOOLEAN : USE_PROXY' = answer
          ELSE /\ main' = [main EXCEPT !.pc = "for_node", !.ni = 1,
                                       !.user_token = Get(CONFIG[main.ui], "usertoken")]
               /\ UNCHANGED USE_PROXY
    /\ UNCHANGED <<CONFIG, service, threads, calls, proxyArgs, resp, log>>

\* for user in CONFIG: user_token = user.get("usertoken")
run_all_for_user ==
    /\ main.pc = "for_user"
    /\ IF main.ui > Len(CONFIG)
          THEN main' = [main EXCEPT !.pc = "join", !.j = 1]
          ELSE main' = [main EXCEPT !.pc = "for_node", !.ni = 1,
                                    !.user_token = Get(CONFIG[main.ui], "usertoken")]
    /\ UNCHANGED <<USE_PROXY, CONFIG, service, threads, calls, proxyArgs, resp, log>>

\* for node in user.get("nodes", []): ... t.start(); threads.append(t)
run_all_for_node ==
    /\ main.pc = "for_node"
    /\ LET nodes == NodesOf(CONFIG[main.ui]) IN
         IF main.ni > Len(nodes)
            THEN /\ main' = [main EXCEPT !.pc = "for_user", !.ui = @ + 1]
                 /\ UNCHANGED <<threads, calls, proxyArgs, resp, log>>
            ELSE /\ threads' = Append(threads,
                        NewThread(nodes[main.ni], main.user_token,
                                  HardwareInfo(nodes[main.ni])))
                 /\ calls' = Append(calls, NoCalls)
                 /\ proxyArgs' = Append(proxyArgs, {})
                 /\ resp' = Append(resp, NoResponse)
                 /\ log' = Append(log, {})
                 /\ main' = [main EXCEPT !.ni = @ + 1]
    /\ UNCHANGED <<USE_PROXY, CONFIG, service>>

\* Mutant of run_all_join: the threads are not waited for.
run_all_join_no_wait ==
    /\ main.pc = "join"
    /\ IF main.j > Len(threads)
          THEN main' = [main EXCEPT !.pc = "returned"]
          ELSE main' = [main EXCEPT !.j = @ + 1]
    /\ UNCHANGED <<USE_PROXY, CONFIG, service, threads, calls, proxyArgs, resp, log>>

\* for t in threads: t.join()
run_all_join ==
    /\ main.pc = "join"
    /\ IF main.j > Len(threads)
          THEN main' = [main EXCEPT !.pc = "returned"]
          ELSE /\ threads[main.j].pc \in Terminated
               /\ main' = [main EXCEPT !.j = @ + 1]
    /\ UNCHANGED <<USE_PROXY, CONFIG, service, threads, calls, proxyArgs, resp, log>>

-----------------------------------------------------------------------------
(* process_node *)

\* Mutant of ResolveProxy: the flag is ignored.
ResolveProxy_ignores_flag(use_proxy, node) == Get(node, "proxy")

\* proxy = node.get("proxy") if USE_PROXY else None
ResolveProxy(use_proxy, node) == IF use_proxy THEN Get(node, "proxy") ELSE None

\* The outcomes the service may give thread i on endpoint ep.
Outcomes(i, ep) ==
    IF ep = "health" THEN service.health
                     ELSE service.nodes[threads[i].node_id][ep]

\* Mutant of ApiCall: check_service_health is called without the proxy.
ApiCall_health_without_proxy(i, ep, o, r) ==
    /\ calls' = [calls EXCEPT ![i][ep] = @ + 1]
    /\ proxyArgs' = [proxyArgs EXCEPT
          ![i] = @ \cup {IF ep = "health" THEN None ELSE threads[i].proxy}]
    /\ resp' = [resp EXCEPT ![i] = [ep |-> ep, outcome |-> o, raised |-> r.raised]]

\* Thread i calls the API function of endpoint ep with its proxy; the HTTP
\* request ends with outcome o and the function ends with result r.
ApiCall(i, ep, o, r) ==
    /\ calls' = [calls EXCEPT ![i][ep] = @ + 1]
    /\ proxyArgs' = [proxyArgs EXCEPT ![i] = @ \cup {threads[i].proxy}]
    /\ resp' = [resp EXCEPT ![i] = [ep |-> ep, outcome |-> o, raised |-> r.raised]]

\* Lines 128-134: bind the locals, print the "Processing node" line.
process_node_enter(i) ==
    /\ threads[i].pc = "enter"
    /\ threads' = [threads EXCEPT
          ![i].node_id = Get(threads[i].node, "nodeId"),
          ![i].hardware_id = Get(threads[i].node, "hardwareId"),
          ![i].proxy = ResolveProxy(USE_PROXY, threads[i].node),
          ![i].pc = "register"]
    /\ log' = [log EXCEPT
          ![i] = {Line("processing_node", Get(threads[i].node, "nodeId"), 0)}]
    /\ UNCHANGED <<USE_PROXY, CONFIG, service, main, calls, proxyArgs, resp>>

\* Mutant of SetupExcept: the return of line 140 is missing, so control
\* falls through to the poll loop.
SetupExcept_falls_through(t) ==
    [pc |-> "health",
     printed |-> {Line("registration_session_error", t.node_id, 0)}]

\* except Exception as e (line 138): print the error line and return.
SetupExcept(t) ==
    [pc |-> "aborted",
     printed |-> {Line("registration_session_error", t.node_id, 0)}]

\* Line 136: register_node(...), inside the try of line 135.
process_node_register(i) ==
    /\ threads[i].pc = "register"
    /\ \E o \in Outcomes(i, "register") :
         LET r == register_node(threads[i].node_id, o)
             h == SetupExcept(threads[i])
         IN /\ ApiCall(i, "register", o, r)
            /\ IF r.raised
                  THEN /\ threads' = [threads EXCEPT ![i].pc = h.pc]
                       /\ log' = [log EXCEPT ![i] = r.printed \cup h.printed]
                  ELSE /\ threads' = [threads EXCEPT ![i].pc = "start_session"]
                       /\ log' = [log EXCEPT ![i] = r.printed]
    /\ UNCHANGED <<USE_PROXY, CONFIG, service, main>>

\* Line 137: start_session(...); when it returns, ping_errors = 0 (line 142).
process_node_start_session(i) ==
    /\ threads[i].pc = "start_session"
    /\ \E o \in Outcomes(i, "start_session") :
         LET r == start_session(threads[i].node_id, o)
             h == SetupExcept(threads[i])
         IN /\ ApiCall(i, "start_session", o, r)
            /\ IF r.raised
                  THEN /\ threads' = [threads EXCEPT ![i].pc = h.pc]
                       /\ log' = [log EXCEPT ![i] = r.printed \cup h.printed]
                  ELSE /\ threads' = [threads EXCEPT ![i].pc = "health",
                                                     ![i].ping_errors = 0]
                       /\ log' = [log EXCEPT ![i] = r.printed]
    /\ UNCHANGED <<USE_PROXY, CONFIG, service, main>>

\* Mutant of PollExcept: the error is counted twice.
PollExcept_counts_twice(t) ==
    LET n == t.ping_errors + 2 IN
    IF n >= max_ping_errors
       THEN [ping_errors |-> n, pc |-> "restarted",
             printed |-> {Line("ping_error", t.node_id, n),
                          Line("maximum_ping_errors", t.node_id, 0)}]
       ELSE [ping_errors |-> n, pc |-> "sleep",
             printed |-> {Line("ping_error", t.node_id, n)}]

\* Mutant of PollExcept: the threshold test is > instead of >=.
PollExcept_strict_threshold(t) ==
    LET n == t.ping_errors + 1 IN
    IF n > max_ping_errors
       THEN [ping_errors |-> n, pc |-> "restarted",
             printed |-> {Line("ping_error", t.node_id, n),
                          Line("maximum_ping_errors", t.node_id, 0)}]
       ELSE [ping_errors |-> n, pc |-> "sleep",
             printed |-> {Line("ping_error", t.node_id, n)}]

\* Mutant of PollExcept: the threshold test is on the count before the
\* increment, so the loop is left one failure early.
PollExcept_early_threshold(t) ==
    LET n == t.ping_errors + 1 IN
    IF n + 1 >= max_ping_errors
       THEN [ping_errors |-> n, pc |-> "restarted",
             printed |-> {Line("ping_error", t.node_id, n),
                          Line("maximum_ping_errors", t.node_id, 0)}]
       ELSE [ping_errors |-> n, pc |-> "sleep",
             printed |-> {Line("ping_error", t.node_id, n)}]

\* Mutant of PollExcept: below the threshold the handler goes straight to
\* the next iteration (a `continue`), skipping the sleep.
PollExcept_skips_sleep(t) ==
    LET n == t.ping_errors + 1 IN
    IF n >= max_ping_errors
       THEN [ping_errors |-> n, pc |-> "restarted",
             printed |-> {Line("ping_error", t.node_id, n),
                          Line("maximum_ping_errors", t.node_id, 0)}]
       ELSE [ping_errors |-> n, pc |-> "health",
             printed |-> {Line("ping_error", t.node_id, n)}]

\* except Exception as e (lines 149-154): count the error, print it, and
\* break out of the loop at the threshold; otherwise go on to the sleep.
PollExcept(t) ==
    LET n == t.ping_errors + 1 IN
    IF n >= max_ping_errors
       THEN [ping_errors |-> n, pc |-> "restarted",
             printed |-> {Line("ping_error", t.node_id, n),
                          Line("maximum_ping_errors", t.node_id, 0)}]
       ELSE [ping_errors |-> n, pc |-> "sleep",
             printed |-> {Line("ping_error", t.node_id, n)}]

\* Mutant of PollStep: ping_errors is one counter shared by the threads, as
\* a module-level global would be.
PollStep_shared_counter(i, ep, o, r, next) ==
    /\ ApiCall(i, ep, o, r)
    /\ IF r.raised
          THEN LET h == PollExcept(threads[i]) IN
               /\ threads' = [k \in DOMAIN threads |->
                     IF k = i
                        THEN [threads[k] EXCEPT !.ping_errors = h.ping_errors,
                                                !.pc = h.pc]
                        ELSE IF threads[k].pc \in {"health", "ping", "status", "sleep"}
                                THEN [threads[k] EXCEPT !.ping_errors = h.ping_errors]
                                ELSE threads[k]]
               /\ log' = [log EXCEPT ![i] = r.printed \cup h.printed]
          ELSE /\ threads' = [threads EXCEPT
                     ![i].ping_errors = IF next = "sleep" THEN 0 ELSE @,
                     ![i].pc = next]
               /\ log' = [log EXCEPT ![i] = r.printed]
    /\ UNCHANGED <<USE_PROXY, CONFIG, service, main>>

\* Mutant of PollStep: the try/except is around each call rather than around
\* the three, so after a handled raise the next call of the cycle is made.
PollStep_except_per_call(i, ep, o, r, next) ==
    /\ ApiCall(i, ep, o, r)
    /\ IF r.raised
          THEN LET h == PollExcept(threads[i]) IN
               /\ threads' = [threads EXCEPT
                     ![i].ping_errors = h.ping_errors,
                     ![i].pc = IF h.pc = "restarted" THEN h.pc ELSE next]
               /\ log' = [log EXCEPT ![i] = r.printed \cup h.printed]
          ELSE /\ threads' = [threads EXCEPT
                     ![i].ping_errors = IF next = "sleep" THEN 0 ELSE @,
                     ![i].pc = next]
               /\ log' = [log EXCEPT ![i] = r.printed]
    /\ UNCHANGED <<USE_PROXY, CONFIG, service, main>>

\* One call of the try block (lines 145-147) by thread i: on a raise the
\* except clause runs; otherwise control moves to `next`, and after the last
\* call ping_errors is reset (line 148).
PollStep(i, ep, o, r, next) ==
    /\ ApiCall(i, ep, o, r)
    /\ IF r.raised
          THEN LET h == PollExcept(threads[i]) IN
               /\ threads' = [threads EXCEPT ![i].ping_errors = h.ping_errors,
                                             ![i].pc = h.pc]
               /\ log' = [log EXCEPT ![i] = r.printed \cup h.printed]
          ELSE /\ threads' = [threads EXCEPT
                     ![i].ping_errors = IF next = "sleep" THEN 0 ELSE @,
                     ![i].pc = next]
               /\ log' = [log EXCEPT ![i] = r.printed]
    /\ UNCHANGED <<USE_PROXY, CONFIG, service, main>>

\* Mutant of process_node_health: the status check comes second (the calls
\* of the try block are in the order health, status, ping).
process_node_health_then_status(i) ==
    /\ threads[i].pc = "health"
    /\ calls[i].health < MaxCycles
    /\ \E o \in Outcomes(i, "health") :
          PollStep(i, "health", o, check_service_health(o), "status")

\* Line 145: check_service_health(proxy)
process_node_health(i) ==
    /\ threads[i].pc = "health"
    /\ calls[i].health < MaxCycles
    /\ \E o \in Outcomes(i, "health") :
          PollStep(i, "health", o, check_service_health(o), "ping")

\* Line 146: ping_node(node_id, user_token, proxy)
process_node_ping(i) ==
    /\ threads[i].pc = "ping"
    /\ \E o \in Outcomes(i, "ping") :
          PollStep(i, "ping", o, ping_node(threads[i].node_id, o), "status")

\* Lines 147-148: check_node_status(node_id, proxy); ping_errors = 0
process_node_status(i) ==
    /\ threads[i].pc = "status"
    /\ \E o \in Outcomes(i, "status") :
          PollStep(i, "status", o, check_node_status(threads[i].node_id, o), "sleep")

\* Mutant of process_node_sleep: the loop body runs once (no `while True`).
process_node_sleep_once(i) ==
    /\ threads[i].pc = "sleep"
    /\ calls' = [calls EXCEPT ![i].sleep = @ + 1]
    /\ threads' = [threads EXCEPT ![i].pc = "restarted"]
    /\ UNCHANGED <<USE_PROXY, CONFIG, service, main, proxyArgs, resp, log>>

\* Line 155: time.sleep(ping_interval), then the next iteration.
process_node_sleep(i) ==
    /\ threads[i].pc = "sleep"
    /\ calls' = [calls EXCEPT ![i].sleep = @ + 1]
    /\ threads' = [threads EXCEPT ![i].pc = "health"]
    /\ UNCHANGED <<USE_PROXY, CONFIG, service, main, proxyArgs, resp, log>>

process_node(i) ==
    \/ process_node_enter(i)
    \/ process_node_register(i)
    \/ process_node_start_session(i)
    \/ process_node_health(i)
    \/ process_node_ping(i)
    \/ process_node_status(i)
    \/ process_node_sleep(i)

run_all ==
    \/ run_all_prompt
    \/ run_all_for_user
    \/ run_all_for_node
    \/ run_all_join

Next ==
    \/ run_all
    \/ \E i \in DOMAIN threads : process_node(i)

Spec == Init /\ [][Next]_vars

\* Every runnable thread is eventually scheduled, every request that is
\* answered returns and every sleep ends.
FairSpec == Spec /\ WF_vars(Next)

-----------------------------------------------------------------------------
(* Properties *)

\* The positions of the poll loop (lines 143-155).
Polling == {"health", "ping", "status", "sleep"}

PollCalls(c) == c.health + c.ping + c.status

\* Thread i makes one of the three calls of the try block in this step.
MadePollCall(i) == PollCalls(calls'[i]) = PollCalls(calls[i]) + 1

\* C1: a poll-cycle call that raises increases ping_errors by exactly 1; the
\* status check returning (all three calls of the cycle returned) sets it to
\* 0; no other step of the loop changes it.
C1_CounterPerCycle ==
    [][\A i \in DOMAIN threads :
         /\ MadePollCall(i) =>
              /\ resp'[i].raised =>
                   threads'[i].ping_errors = threads[i].ping_errors + 1
              /\ (~resp'[i].raised /\ resp'[i].ep = "status") =>
                   threads'[i].ping_errors = 0
              /\ (~resp'[i].raised /\ resp'[i].ep # "status") =>
                   threads'[i].ping_errors = threads[i].ping_errors
         /\ (~MadePollCall(i) /\ threads[i].pc \in Polling) =>
              threads'[i].ping_errors = threads[i].ping_errors]_vars

\* C1 witness: a cycle whose three calls returned has reset the counter after
\* an earlier cycle of the same thread had raised before its status check.
C1_Witness ==
    \E i \in DOMAIN threads :
       /\ threads[i].pc = "sleep"
       /\ resp[i].ep = "status" /\ ~resp[i].raised
       /\ threads[i].ping_errors = 0
       /\ calls[i].status < calls[i].health

\* C2: the raising cycle that follows two consecutive raising cycles (the
\* third in a row) takes the thread out of the loop; a thread that has left
\* the loop makes no further call and never changes again.
C2_RestartAfterThree ==
    [][\A i \in DOMAIN threads :
         /\ (MadePollCall(i) /\ resp'[i].raised /\ threads[i].ping_errors = 2) =>
              threads'[i].pc = "restarted"
         /\ threads[i].pc = "restarted" =>
              /\ threads'[i] = threads[i]
              /\ calls'[i] = calls[i]
              /\ resp'[i] = resp[i]]_vars

\* C2 witness: a thread restarted after exactly three cycles, and run_all
\* went on to return afterwards.
C2_Witness ==
    \E i \in DOMAIN threads :
       /\ threads[i].pc = "restarted"
       /\ calls[i].health = 3
       /\ main.pc = "returned"

\* C3: a thread leaves the loop only in a raising step that takes the counter
\* from 2 to 3, and a thread still in the loop has a counter below 3.
C3_RestartOnlyAtThreshold ==
    /\ [](\A i \in DOMAIN threads :
            threads[i].pc \in Polling => threads[i].ping_errors < max_ping_errors)
    /\ [][\A i \in DOMAIN threads :
            (threads'[i].pc = "restarted" /\ threads[i].pc # "restarted") =>
               /\ MadePollCall(i) /\ resp'[i].raised
               /\ threads[i].ping_errors = max_ping_errors - 1
               /\ threads'[i].ping_errors = max_ping_errors]_vars

\* C3 witness: three raising cycles separated by a successful one (the thread
\* made four health checks but only one status check, which returned) have
\* left the thread in the loop.
C3_Witness ==
    \E i \in DOMAIN threads :
       /\ threads[i].pc = "sleep"
       /\ calls[i].health = 4 /\ calls[i].status = 1
       /\ resp[i].ep # "status"
       /\ threads[i].ping_errors = 2

\* The latest call of thread i was register_node or start_session, and raised.
SetupFailed(i) ==
    resp[i].ep \in {"register", "start_session"} /\ resp[i].raised

\* C4: a thread whose register_node or start_session call raised has returned
\* without any health, ping or status call and without sleeping, and never
\* does anything again.
C4_SetupFailureNeverPolls ==
    /\ [](\A i \in DOMAIN threads :
            SetupFailed(i) =>
               /\ threads[i].pc = "aborted"
               /\ calls[i].health = 0 /\ calls[i].ping = 0
               /\ calls[i].status = 0 /\ calls[i].sleep = 0)
    /\ [][\A i \in DOMAIN threads :
            threads[i].pc = "aborted" =>
               /\ threads'[i] = threads[i]
               /\ calls'[i] = calls[i]
               /\ resp'[i] = resp[i]]_vars

\* C4 witness: start_session got a non-JSON response, the thread has
\* returned, and run_all went on to return.
C4_Witness ==
    \E i \in DOMAIN threads :
       /\ resp[i].ep = "start_session" /\ resp[i].outcome = "nonjson"
       /\ threads[i].pc = "aborted"
       /\ main.pc = "returned"

\* register_node of thread i got a response that is not JSON.
RegisterGarbledFor(i) == resp[i].ep = "register" /\ resp[i].outcome = "nonjson"

\* C5: after a non-JSON registration response the thread has printed the
\* parse-failure line naming its node and neither has called nor goes on to
\* call start_session; start_session is called only right after the single
\* register_node call has returned without raising.
C5_GarbledRegistration ==
    /\ [](\A i \in DOMAIN threads :
            RegisterGarbledFor(i) =>
               /\ Line("registration_parse_failed",
                       Get(threads[i].node, "nodeId"), 0) \in log[i]
               /\ calls[i].start_session = 0)
    /\ [][\A i \in DOMAIN threads :
            /\ RegisterGarbledFor(i) => calls'[i].start_session = 0
            /\ calls'[i].start_session # calls[i].start_session =>
                  /\ resp[i].ep = "register" /\ ~resp[i].raised
                  /\ calls[i].register = 1]_vars

\* C5 witness: registration was answered with non-JSON text, the thread has
\* returned, and run_all went on to return.
C5_Witness ==
    \E i \in DOMAIN threads :
       /\ RegisterGarbledFor(i)
       /\ threads[i].pc = "aborted"
       /\ main.pc = "returned"

\* C6: the proxy a thread resolved is None when USE_PROXY is false, and the
\* node's "proxy" entry (None when the node has none) when USE_PROXY is true.
C6_ProxyResolution ==
    \A i \in DOMAIN threads :
       threads[i].pc # "enter" =>
          threads[i].proxy =
             IF USE_PROXY
                THEN IF "proxy" \in DOMAIN threads[i].node
                        THEN threads[i].node.proxy
                        ELSE None
                ELSE None

\* C6 witness: with the flag false, a node that configures a proxy resolved
\* to no proxy.
C6_Witness ==
    \E i \in DOMAIN threads :
       /\ threads[i].pc # "enter"
       /\ ~USE_PROXY
       /\ "proxy" \in DOMAIN threads[i].node
       /\ Truthy(threads[i].node.proxy)
       /\ threads[i].proxy = None

\* The node API behaviour the service has for thread i's node.
BehaviourFor(i) == service.nodes[Get(threads[i].node, "nodeId")]

\* Thread i's ping raises on every call, its health and status checks succeed.
PingAlwaysRaises(i) == service.health = {"ok"} /\ BehaviourFor(i) = PingDown

\* Every call thread i makes succeeds.
AllSucceed(i) == service.health = {"ok"} /\ BehaviourFor(i) = Healthy

\* C7: no step changes the locals (counter, phase) of two threads, so a step
\* of one thread leaves every other thread's counter and phase alone; and
\* next to a thread whose every cycle fails, a thread whose every cycle
\* succeeds keeps its counter at 0 and is never restarted.
C7_IndependentCounters ==
    /\ [][\A i, j \in DOMAIN threads :
            (i # j /\ threads'[i] # threads[i]) => threads'[j] = threads[j]]_vars
    /\ [](\A i, j \in DOMAIN threads :
            (i # j /\ PingAlwaysRaises(i) /\ AllSucceed(j)) =>
               /\ threads[j].pc # "restarted"
               /\ threads[j].pc \in Polling => threads[j].ping_errors = 0)

\* C7 witness: the failing thread has been restarted while the succeeding
\* one has run three cycles and is still polling with its counter at 0.
C7_Witness ==
    \E i, j \in DOMAIN threads :
       /\ i # j /\ PingAlwaysRaises(i) /\ AllSucceed(j)
       /\ threads[i].pc = "restarted"
       /\ threads[j].pc \in Polling
       /\ calls[j].sleep >= 3
       /\ threads[j].ping_errors = 0

\* C8: when ping raises on every call and the health and status checks
\* succeed, the thread never makes a fourth ping, its third ping leaves it
\* restarted with the maximum-ping-errors line printed, and it is restarted
\* only after exactly three pings (in three cycles, none reaching the status
\* check).
C8_ThreePingsThenStop ==
    \A i \in DOMAIN threads :
       PingAlwaysRaises(i) =>
          /\ calls[i].ping <= 3
          /\ calls[i].ping = 3 =>
                /\ threads[i].pc = "restarted"
                /\ Line("maximum_ping_errors", Get(threads[i].node, "nodeId"), 0)
                      \in log[i]
          /\ threads[i].pc = "restarted" =>
                /\ calls[i].ping = 3
                /\ calls[i].health = 3
                /\ calls[i].status = 0

\* C8 witness: such a thread has stopped, and run_all has returned.
C8_Witness ==
    \E i \in DOMAIN threads :
       /\ PingAlwaysRaises(i)
       /\ threads[i].pc = "restarted"
       /\ main.pc = "returned"

\* One user with one node, and a service on which every call succeeds.
ScenarioA ==
    /\ Len(CONFIG) = 1
    /\ "nodes" \in DOMAIN CONFIG[1]
    /\ Len(CONFIG[1].nodes) = 1
    /\ service.health = {"ok"}
    /\ service.nodes[CONFIG[1].nodes[1].nodeId] = Healthy

\* C9: in scenario A the thread registers once and starts the session once,
\* its counter is 0 whenever it is in the loop, it never returns (nor does
\* run_all), every sleep is followed by the next cycle's health check, and
\* under fair scheduling it runs every cycle the bound MaxCycles admits.
C9_HealthyNodePollsForever ==
    /\ [](ScenarioA =>
            /\ main.pc # "returned"
            /\ \A i \in DOMAIN threads :
                  /\ calls[i].register <= 1 /\ calls[i].start_session <= 1
                  /\ threads[i].pc \notin Terminated
                  /\ threads[i].pc \in Polling =>
                        /\ threads[i].ping_errors = 0
                        /\ calls[i].register = 1 /\ calls[i].start_session = 1)
    /\ [][ScenarioA =>
            \A i \in DOMAIN threads :
               (threads[i].pc = "sleep" /\ threads'[i] # threads[i]) =>
                  threads'[i].pc = "health"]_vars
    /\ (ScenarioA => <>(/\ Len(threads) = 1
                        /\ calls[1].sleep = MaxCycles
                        /\ threads[1].pc = "health"))

\* C9 witness: in scenario A the thread has completed three cycles.
C9_Witness ==
    /\ ScenarioA
    /\ Len(threads) = 1
    /\ calls[1].sleep = 3
    /\ calls[1].status = 3

\* The number of node records of users u, u+1, ... of cfg.
RECURSIVE NodeCount(_, _)
NodeCount(cfg, u) ==
    IF u > Len(cfg)
       THEN 0
       ELSE (IF "nodes" \in DOMAIN cfg[u] THEN Len(cfg[u].nodes) ELSE 0)
            + NodeCount(cfg, u + 1)

\* The (user, node) pairs of cfg, as pairs of positions.
UserNodePairs(cfg) ==
    UNION { IF "nodes" \in DOMAIN cfg[u]
               THEN { <<u, n>> : n \in DOMAIN cfg[u].nodes }
               ELSE {} : u \in DOMAIN cfg }

\* C10: run_all never starts more threads than there are node records, and
\* once its loops are done it has started as many threads as node records,
\* exactly one for each (user, node) pair, with that node's record, that
\* user's token and a hardware info holding that node's hardware identifier.
C10_OneRunnerPerNode ==
    /\ Len(threads) <= NodeCount(CONFIG, 1)
    /\ main.pc \in {"join", "returned"} =>
          /\ Len(threads) = NodeCount(CONFIG, 1)
          /\ \A p \in UserNodePairs(CONFIG) :
                Cardinality({ i \in DOMAIN threads :
                    /\ threads[i].node = CONFIG[p[1]].nodes[p[2]]
                    /\ threads[i].user_token = CONFIG[p[1]].usertoken
                    /\ threads[i].hardware_info =
                          [hardwareId |-> CONFIG[p[1]].nodes[p[2]].hardwareId] }) = 1

\* C10 witness: three users, one of them without nodes, gave two threads.
C10_Witness ==
    /\ main.pc = "join"
    /\ Len(CONFIG) = 3
    /\ Len(threads) = 2

\* C11: when run_all has returned, every thread it started has returned
\* (after a registration/session error or at the restart threshold), and it
\* started a thread for every node; so while a thread is anywhere before its
\* end, run_all has not returned.
C11_ReturnsAfterAllRunners ==
    main.pc = "returned" =>
       /\ Len(threads) = NodeCount(CONFIG, 1)
       /\ \A i \in DOMAIN threads : threads[i].pc \in Terminated

\* C11 witness: run_all returned after one thread aborted and another was
\* restarted.
C11_Witness ==
    /\ main.pc = "returned"
    /\ \E i, j \in DOMAIN threads :
          threads[i].pc = "aborted" /\ threads[j].pc = "restarted"

\* The poll cycles thread i has run to their end (through the try block and,
\* on a raise, the except clause), the sleep of the last one not included.
CyclesRun(i) ==
    IF threads[i].pc \in {"ping", "status"} THEN calls[i].health - 1
                                            ELSE calls[i].health

\* C12 as claimed: between iterations and after the loop, a thread has slept
\* once for every cycle it ran, the threshold-reaching cycle included.
C12_SleepEveryCycle ==
    \A i \in DOMAIN threads :
       threads[i].pc \in {"health", "restarted"} => calls[i].sleep = CyclesRun(i)

\* C12 amended: a thread sleeps once after every cycle that does not reach
\* the threshold (sleeps equal cycles run when it is at the top of the loop,
\* one less while the sleep of the current cycle is still ahead); the cycle
\* that reaches the threshold breaks out without sleeping, so a restarted
\* thread has slept once less than the cycles it ran.
C12_SleepUnlessRestarted ==
    \A i \in DOMAIN threads :
       /\ threads[i].pc = "health" => calls[i].sleep = CyclesRun(i)
       /\ threads[i].pc = "sleep" => calls[i].sleep = CyclesRun(i) - 1
       /\ threads[i].pc \in {"ping", "status"} => calls[i].sleep = CyclesRun(i)
       /\ threads[i].pc = "restarted" => calls[i].sleep = CyclesRun(i) - 1
       /\ threads[i].pc \notin (Polling \cup {"restarted"}) => calls[i].sleep = 0

\* C12 witness: a thread restarted in its fourth cycle after three sleeps,
\* one of them after a successful cycle and two after handled failures.
C12_Witness ==
    \E i \in DOMAIN threads :
       /\ threads[i].pc = "restarted"
       /\ calls[i].health = 4
       /\ calls[i].sleep = 3

\* C13 as claimed: the latest health or status check of a thread never
\* raised, whatever the outcome of its HTTP request.
C13_HealthStatusNeverRaise ==
    \A i \in DOMAIN threads :
       resp[i].ep \in {"health", "status"} => ~resp[i].raised

\* C13 amended: a health or status check raises exactly when its HTTP request
\* fails in transport (requests.get raises); for every response it gets it
\* returns normally.  So the counter goes up only on a ping failure or on a
\* transport failure of the health or status check.
C13_HealthStatusRaiseOnTransportOnly ==
    /\ [](\A i \in DOMAIN threads :
            resp[i].ep \in {"health", "status"} =>
               (resp[i].raised <=> resp[i].outcome = "transport"))
    /\ [][\A i \in DOMAIN threads :
            (threads[i].pc \in Polling /\
             threads'[i].ping_errors # threads[i].ping_errors /\
             threads'[i].ping_errors # 0) =>
                \/ resp'[i].ep = "ping"
                \/ resp'[i].outcome = "transport"]_vars

\* C13 witness: a health check whose body could not be parsed returned, and
\* the thread went on to its ping.
C13_Witness ==
    \E i \in DOMAIN threads :
       /\ resp[i].ep = "health" /\ resp[i].outcome = "nonjson"
       /\ threads[i].pc = "ping"

\* The latest call of thread i ended in a failure the thread observed.
HealthContentFailure(i) ==
    resp[i].ep = "health" /\ resp[i].outcome \in {"other", "nonjson"}

FailureObserved(i) ==
    \/ resp[i].raised
    \/ HealthContentFailure(i)
    \/ resp[i].ep = "status" /\ resp[i].outcome = "notok"

NamesNode(i, line) == line.node = Get(threads[i].node, "nodeId")

\* C14 as claimed: every failure a thread observed left a printed line that
\* contains the identifier of the thread's node.
C14_FailureLineNamesNode ==
    \A i \in DOMAIN threads :
       FailureObserved(i) => \E line \in log[i] : NamesNode(i, line)

\* C14 amended: every failure a thread observed left a printed line; the
\* line names the thread's node, except for a health check that returned
\* with a body that is not ok or cannot be parsed, whose line names no node.
\* Reaching the threshold printed the maximum-ping-errors line of the node.
C14_FailureLineNamesNodeUnlessHealth ==
    \A i \in DOMAIN threads :
       /\ FailureObserved(i) =>
             /\ log[i] # {}
             /\ ~HealthContentFailure(i) => \E line \in log[i] : NamesNode(i, line)
             /\ HealthContentFailure(i) => \A line \in log[i] : line.node = None
       /\ threads[i].pc = "restarted" =>
             Line("maximum_ping_errors", Get(threads[i].node, "nodeId"), 0) \in log[i]

\* C14 witness: a health check answered with a status other than ok, and the
\* line printed for it names no node.
C14_Witness ==
    \E i \in DOMAIN threads :
       /\ resp[i].ep = "health" /\ resp[i].outcome = "other"
       /\ log[i] = {Line("health_check_failed", None, 0)}

\* C15: a thread issues a ping only when its latest call was a health check
\* that returned, a status check only when its latest call was a ping that
\* returned, and a health check never right after a health check or ping
\* that returned.
C15_CycleOrder ==
    [][\A i \in DOMAIN threads :
         /\ calls'[i].ping # calls[i].ping =>
               resp[i].ep = "health" /\ ~resp[i].raised
         /\ calls'[i].status # calls[i].status =>
               resp[i].ep = "ping" /\ ~resp[i].raised
         /\ calls'[i].health # calls[i].health =>
               ~(resp[i].ep \in {"health", "ping"} /\ ~resp[i].raised)]_vars

\* C15 witness: a thread has gone through the three calls twice.
C15_Witness ==
    \E i \in DOMAIN threads :
       /\ resp[i].ep = "status"
       /\ calls[i].health = 2 /\ calls[i].ping = 2 /\ calls[i].status = 2

\* C16: from its binding at line 142 on (in the loop and after it),
\* ping_errors is an integer between 0 and max_ping_errors; before that the
\* local is not bound.
C16_CounterRange ==
    \A i \in DOMAIN threads :
       IF threads[i].pc \in Polling \cup {"restarted"}
          THEN threads[i].ping_errors \in 0..max_ping_errors
          ELSE threads[i].ping_errors = Unbound

\* C16 witness: the counter at its maximum.
C16_Witness ==
    \E i \in DOMAIN threads :
       threads[i].pc = "restarted" /\ threads[i].ping_errors = max_ping_errors

\* C17: a health check whose body is not ok or cannot be parsed returns and
\* leaves the counter alone, the thread going on to its ping; a status check
\* that gets a non-success status returns, and the counter is reset to 0 as
\* after a status check that got a success status.
C17_ContentFailuresDoNotCount ==
    [][\A i \in DOMAIN threads :
         /\ (calls'[i].health # calls[i].health /\
             resp'[i].outcome \in {"other", "nonjson"}) =>
               /\ ~resp'[i].raised
               /\ threads'[i].ping_errors = threads[i].ping_errors
               /\ threads'[i].pc = "ping"
         /\ (calls'[i].status # calls[i].status /\
             resp'[i].outcome \in {"ok", "notok"}) =>
               /\ ~resp'[i].raised
               /\ threads'[i].ping_errors = 0
               /\ threads'[i].pc = "sleep"]_vars

\* C17 witness: a status check with a non-success status ended a cycle with
\* the counter reset, after an earlier cycle of the thread had failed.
C17_Witness ==
    \E i \in DOMAIN threads :
       /\ resp[i].ep = "status" /\ resp[i].outcome = "notok"
       /\ threads[i].pc = "sleep"
       /\ threads[i].ping_errors = 0
       /\ calls[i].status < calls[i].health

ApiCalls(c) == c.register + c.start_session + c.health + c.ping + c.status

\* C18: the proxy is bound before the first API call and never rebound, and
\* every API call of the thread was passed that value.
C18_SameProxyEveryCall ==
    /\ [](\A i \in DOMAIN threads :
            /\ proxyArgs[i] \subseteq {threads[i].proxy}
            /\ ApiCalls(calls[i]) > 0 =>
                  /\ threads[i].proxy # Unbound
                  /\ proxyArgs[i] = {threads[i].proxy})
    /\ [][\A i \in DOMAIN threads :
            threads[i].pc # "enter" => threads'[i].proxy = threads[i].proxy]_vars

\* C18 witness: a thread with a proxy has made all five kinds of call.
C18_Witness ==
    \E i \in DOMAIN threads :
       /\ threads[i].proxy = "http://p1"
       /\ calls[i].status >= 2
       /\ proxyArgs[i] = {"http://p1"}

\* The flag value thread i read, for a thread whose node has a "proxy" entry
\* (the resolved proxy is None exactly when the flag was false).
FlagRead(i) == threads[i].proxy # None

Resolved(i) == threads[i].pc # "enter" /\ "proxy" \in DOMAIN threads[i].node

\* C19: USE_PROXY changes only in run_all's prompt step, which is taken once
\* and before any thread exists; so no thread ever runs while it is
\* written, and all threads read the same value, the one it has now.
C19_FlagFixedBeforeThreads ==
    /\ [][/\ USE_PROXY' # USE_PROXY => (main.pc = "prompt" /\ threads = <<>>)
          /\ main.pc # "prompt" => main'.pc # "prompt"]_vars
    /\ [](threads # <<>> => main.pc # "prompt")
    /\ [](\A i, j \in DOMAIN threads :
            (Resolved(i) /\ Resolved(j)) =>
               /\ FlagRead(i) = FlagRead(j)
               /\ FlagRead(i) = USE_PROXY)

\* C19 witness: two threads whose nodes have a proxy entry have both
\* resolved their proxy with the flag set.
C19_Witness ==
    \E i, j \in DOMAIN threads :
       /\ i # j /\ Resolved(i) /\ Resolved(j)
       /\ USE_PROXY /\ FlagRead(i) /\ FlagRead(j)

PollEndpoints == {"health", "ping", "status"}

\* C20: the poll call a thread makes after a poll call that raised is a
\* health check (the raise ended the cycle), and a thread has never made
\* more status checks than pings, nor more pings than health checks.
C20_RaiseEndsCycle ==
    /\ [][\A i \in DOMAIN threads :
            (MadePollCall(i) /\ resp[i].ep \in PollEndpoints /\ resp[i].raised) =>
               resp'[i].ep = "health"]_vars
    /\ [](\A i \in DOMAIN threads :
            calls[i].status <= calls[i].ping /\ calls[i].ping <= calls[i].health)

\* C20 witness: of three cycles one was ended by the health check raising
\* and one by the ping raising.
C20_Witness ==
    \E i \in DOMAIN threads :
       calls[i].health = 3 /\ calls[i].ping = 2 /\ calls[i].status = 1

=============================================================================
